---- MODULE Spec2Model ----
(***************************************************************************)
(* TurboModuleManager (ReactAndroid, turbomodule/core/jni): the manager's  *)
(* construction and destruction, installJSIBindings, and the               *)
(* turboModuleProvider closure that resolves a module name through the     *)
(* cache and the three providers.                                          *)
(***************************************************************************)
EXTENDS Integers, Sequences, FiniteSets, TLC

\* Bounds of the model.
MaxBuilt == 2          \* instances the providers hand out per manager and name
MaxInstallCalls == 2   \* calls of installJSIBindings per manager

Managers == {"m1", "m2"}
Names == {"Foo", "Bar"}
Callers == {"c1", "c2"}            \* execution contexts that may call a closure

\* The five dependencies the closure captures, in the order it upgrades them.
Deps == <<"turboModuleCache", "jsCallInvoker", "nativeCallInvoker", "delegate", "javaPart">>
DepSet == {Deps[i] : i \in 1..Len(Deps)}
\* Objects that someone besides the manager owns (CallInvokerHolder, the JVM).
ExternallyOwned == DepSet \ {"turboModuleCache"}

\* A module instance is <<manager, name, tier, k>>: the k-th instance built for
\* that name through that manager's closure.
NoEntry == <<>>                \* find(name) == end()
NullModule == <<"nullptr">>    \* an empty std::shared_ptr<TurboModule>

VARIABLES
  mgr,           \* [Managers -> "none", "live" or "destroyed"]: the C++ manager
  flags,         \* [Managers -> <<useGlobal..., useTurboModuleManager...>>]
  jsPresent,     \* [Managers -> BOOLEAN]: jsCallInvoker_ is non-null
  retainJSCallback, \* [Managers -> strategy]: the factory retainJSCallback_
  contexts,      \* the execution contexts that call into a manager's closure
  ext,           \* [Managers -> SUBSET ExternallyOwned]: owners outside the manager
  freed,         \* [Managers -> SUBSET DepSet]: objects whose last owner is gone
  cacheOf,       \* [Managers -> cache object]: turboModuleCache_
  cache,         \* [cache object -> [Names -> NoEntry, NullModule or an instance]]
  llc,           \* [Managers -> "none", "live", "freed"]: longLivedObjectCollection_
  kept,          \* [Managers -> BOOLEAN]: the manager's collection holds callbacks
  globalKept,    \* BOOLEAN: the process-wide collection holds callbacks
  submitted,     \* [Managers -> Nat]: callbacks handed to runtimeExecutor_
  ran,           \* [Managers -> Nat]: of those, how many have run
  installed,     \* [Managers -> "no", "yes", "stale"]: the registered closure
  built,         \* [Managers -> [Names -> Nat]]: instances built so far
  pc,            \* [Callers -> position in the closure]
  site,          \* [Callers -> the manager whose closure the caller is in]
  name,          \* [Callers -> the name looked up]
  late,          \* [Callers -> the lookup began on a destroyed, idle manager]
  tried,         \* [Callers -> number of upgrades attempted]
  locked,        \* [Callers -> SUBSET DepSet]: upgrades that returned non-null
  log,           \* [Callers -> what the lookup did: events, cache and provider calls]
  last,          \* the last lookup that returned
  rets,          \* [Managers -> [Names -> non-empty instances ever returned]]
  answered       \* [Managers -> names some provider returned non-empty for]

cfgVars == <<flags, jsPresent, retainJSCallback, contexts, cacheOf>>
mgrVars == <<mgr, ext, submitted, ran, installed>>
keepVars == <<llc, kept, globalKept>>
lookupVars == <<pc, site, name, late, tried, locked, log>>
histVars == <<last, rets, answered>>
vars == <<cfgVars, mgrVars, keepVars, freed, cache, built, lookupVars, histVars>>

Mgr(l) == site[l]
PostGuard == {"native", "legacy", "java"}
IsInstance(v) == Len(v) = 4

\* No InitParams: the lookup did not reach line 156.
NoParams == [moduleName |-> "", instance |-> <<>>, jsInvoker |-> <<>>,
             nativeInvoker |-> <<>>, retainJSCallback |-> ""]

NoLookup == [mgr |-> "", name |-> "", late |-> FALSE, deps |-> {},
             outcome |-> "none", result |-> NullModule, log |-> <<>>,
             params |-> NoParams]

----------------------------------------------------------------------------
\* Construction (TurboModuleManager::TurboModuleManager)

\* Mutant of MakeCache: one process-wide cache.
SharedCache(m) == "m1"

\* std::make_shared<TurboModuleCache>(): every manager gets a cache of its own.
MakeCache(m) == m

\* Mutant of Strategy: the manager-scope flag is tested first.
StrategyScopedFirst(f) ==
  IF f[2] THEN "ManagerScopedCollection"
  ELSE IF f[1] THEN "GlobalCollection"
  ELSE "None"

\* Lines 37-55: which retention strategy the two flags select.
Strategy(f) ==
  IF f[1] THEN "GlobalCollection"
  ELSE IF f[2] THEN "ManagerScopedCollection"
  ELSE "None"

\* The state after the managers in ms have been constructed, called from cs.
Constructed(ms, fs, cs) ==
  /\ mgr = [m \in Managers |-> IF m \in ms THEN "live" ELSE "none"]
  /\ flags \in [Managers -> BOOLEAN \X BOOLEAN]
  /\ \A m \in Managers : flags[m] \in (IF m \in ms THEN fs ELSE {<<FALSE, FALSE>>})
  /\ jsPresent \in [Managers -> BOOLEAN]
  /\ \A m \in Managers \ ms : jsPresent[m]
  /\ retainJSCallback = [m \in Managers |->
                           IF m \in ms THEN Strategy(flags[m]) ELSE "None"]
  /\ contexts = cs
  /\ ext = [m \in Managers |->
              IF jsPresent[m] THEN ExternallyOwned
              ELSE ExternallyOwned \ {"jsCallInvoker"}]
  /\ freed = [m \in Managers |-> IF jsPresent[m] THEN {} ELSE {"jsCallInvoker"}]
  /\ cacheOf = [m \in Managers |-> MakeCache(m)]
  /\ cache = [c \in Managers |-> [n \in Names |-> NoEntry]]
  /\ llc = [m \in Managers |->
              IF m \in ms /\ Strategy(flags[m]) = "ManagerScopedCollection"
              THEN "live" ELSE "none"]
  /\ kept = [m \in Managers |-> FALSE]
  /\ globalKept = FALSE
  /\ submitted = [m \in Managers |-> 0]
  /\ ran = [m \in Managers |-> 0]
  /\ installed = [m \in Managers |-> "no"]
  /\ built = [m \in Managers |-> [n \in Names |-> 0]]
  /\ pc = [l \in Callers |-> "idle"]
  /\ site = [l \in Callers |-> ""]
  /\ name = [l \in Callers |-> ""]
  /\ late = [l \in Callers |-> FALSE]
  /\ tried = [l \in Callers |-> 0]
  /\ locked = [l \in Callers |-> {}]
  /\ log = [l \in Callers |-> <<>>]
  /\ last = NoLookup
  /\ rets = [m \in Managers |-> [n \in Names |-> {}]]
  /\ answered = [m \in Managers |-> {}]

\* One manager, its closure called from one execution context (spec section 5).
Init == Constructed({"m1"}, {<<FALSE, TRUE>>}, {"c1"})

----------------------------------------------------------------------------
\* Ownership

\* Mutant of StrongRefs: the upgraded locals do not keep their objects alive.
NoRefs(got) == {}

\* A non-null result of lock()/lockLocal() is a strong reference for as long
\* as the local variable lives, that is until the closure returns.
StrongRefs(got) == got

\* Mutant of ClosureOwns: the closure captures the cache by shared_ptr.
ClosureOwnsCache == {"turboModuleCache"}

\* Lines 94-98: the closure captures the five dependencies weakly.
ClosureOwns == {}

Owned(st, inst, ex, at, lk, m, d) ==
  \/ st[m] = "live" /\ (d = "jsCallInvoker" => jsPresent[m])
  \/ d \in ex[m]
  \/ inst[m] = "yes" /\ d \in ClosureOwns
  \/ \E c \in Callers : at[c] = m /\ d \in StrongRefs(lk[c])

\* Objects are destroyed when their last owner lets go.
Sweep(st, inst, ex, at, lk) ==
  [m \in Managers |->
     IF st[m] = "none" THEN freed[m]
     ELSE freed[m] \cup {d \in DepSet : ~Owned(st, inst, ex, at, lk, m, d)}]

\* Lines 47-48 and 99: the factory owns the collection, and the closure owns a
\* copy of the factory.
CollectionOwned(st, inst, m) == st[m] = "live" \/ inst[m] = "yes"

----------------------------------------------------------------------------
\* The manager's operations

\* installJSIBindings, lines 87-92 and 174: hand the callback to the executor.
InstallJSIBindings(m) ==
  /\ mgr[m] = "live"
  /\ submitted[m] < MaxInstallCalls
  /\ submitted' = IF jsPresent[m] THEN [submitted EXCEPT ![m] = @ + 1] ELSE submitted
  /\ UNCHANGED <<cfgVars, mgr, ext, ran, installed, keepVars, freed, cache, built,
                 lookupVars, histVars>>

\* The executor runs the callback, lines 92-173, which reads the manager's
\* fields through the captured this.  Against a destroyed manager the reads are
\* undefined: the run may end there, or register a closure built from what the
\* freed fields still show.
RunInstall(m) ==
  /\ ran[m] < submitted[m]
  /\ ran' = [ran EXCEPT ![m] = @ + 1]
  /\ IF mgr[m] = "live"
     THEN installed' = [installed EXCEPT ![m] = "yes"]
     ELSE \/ installed' = installed
          \/ installed' = [installed EXCEPT ![m] = IF @ = "no" THEN "stale" ELSE @]
  /\ UNCHANGED <<cfgVars, mgr, ext, submitted, keepVars, freed, cache, built,
                 lookupVars, histVars>>

\* ~TurboModuleManager: the fields release what they own.
Destroy(m) ==
  /\ mgr[m] = "live"
  /\ mgr' = [mgr EXCEPT ![m] = "destroyed"]
  /\ freed' = Sweep(mgr', installed, ext, site, locked)
  /\ LET gone == llc[m] = "live" /\ ~CollectionOwned(mgr', installed, m) IN
       /\ llc' = [llc EXCEPT ![m] = IF gone THEN "freed" ELSE @]
       /\ kept' = [kept EXCEPT ![m] = IF gone THEN FALSE ELSE @]
  /\ UNCHANGED <<cfgVars, ext, submitted, ran, installed, globalKept, cache, built,
                 lookupVars, histVars>>

\* An owner outside the manager lets go of an invoker or of a Java object.
\* While the manager lives its own field keeps the object, so the release
\* shows only after the destructor.
ExternalRelease(m, d) ==
  /\ mgr[m] = "destroyed"
  /\ d \in ext[m]
  /\ ext' = [ext EXCEPT ![m] = @ \ {d}]
  /\ freed' = Sweep(mgr, installed, ext', site, locked)
  /\ UNCHANGED <<cfgVars, mgr, submitted, ran, installed, keepVars, cache, built,
                 lookupVars, histVars>>

\* A module built by the managed-runtime tier calls the retainJSCallback it was
\* given (lines 39-44 and 47-54): CallbackWrapper::createWeak puts the callback
\* into the collection the strategy names.
RetainCallback(m) ==
  /\ \E n \in Names : \E i \in rets[m][n] : i[3] = "java"
  /\ \/ /\ Strategy(flags[m]) = "GlobalCollection"
        /\ globalKept' = TRUE
        /\ UNCHANGED kept
     \/ /\ Strategy(flags[m]) = "ManagerScopedCollection"
        /\ llc[m] = "live"
        /\ kept' = [kept EXCEPT ![m] = TRUE]
        /\ UNCHANGED globalKept
  /\ UNCHANGED <<cfgVars, mgrVars, llc, freed, cache, built, lookupVars, histVars>>

----------------------------------------------------------------------------
\* The turboModuleProvider closure, lines 100-170

\* Mutant of GuardFails: the guard forgets the delegate.
GuardSkipsDelegate(got) == ~((DepSet \ {"delegate"}) \subseteq got)

\* Line 107: any upgrade that came back null makes the closure return nullptr.
GuardFails(got) == got # DepSet

\* Mutant of IsHit: the cache is never consulted.
NeverHit(v) == FALSE

\* Line 117: turboModuleLookup != turboModuleCache->end()
IsHit(v) == v # NoEntry

\* Mutants of Insert: the insert is lost; the insert overwrites.
InsertDropped(c, n, v) == c
InsertOverwrites(c, n, v) == [c EXCEPT ![n] = v]

\* std::unordered_map::insert: no effect when the key is present.
Insert(c, n, v) == IF c[n] = NoEntry THEN [c EXCEPT ![n] = v] ELSE c

\* Mutant of CacheAfterMiss: the miss is cached as an empty entry.
MissCached(c, n) == [c EXCEPT ![n] = NullModule]

\* Line 169: a name no provider resolved leaves the cache as it was.
CacheAfterMiss(c, n) == c

\* Mutant of TierAfter: the legacy shim is asked before the native fast path.
TierAfterSwapped(t) ==
  CASE t = "find" -> "legacy"
    [] t = "legacy" -> "native"
    [] t = "native" -> "java"
    [] OTHER -> "none"

\* The order of the provider calls: lines 125, 135, 152.
TierAfter(t) ==
  CASE t = "find" -> "native"
    [] t = "native" -> "legacy"
    [] t = "legacy" -> "java"
    [] OTHER -> "none"

\* What a provider may hand back: nothing, or (within the bound) a new instance.
Fresh(m, n, tier) ==
  IF built[m][n] < MaxBuilt THEN {<<m, n, tier, built[m][n] + 1>>} ELSE {}

\* The local variable an upgrade of dependency d left in lookup l.
Local(l, d) == IF d \in locked[l] THEN <<Mgr(l), d>> ELSE <<>>

\* Line 152: what getJavaModule(javaPart, name) hands back for the name.
JavaModule(l) == <<"javaModule", Mgr(l), name[l]>>

\* Mutant of BuildParams: the two invokers change places.
BuildParamsSwapped(l) ==
  [moduleName |-> name[l],
   instance |-> JavaModule(l),
   jsInvoker |-> Local(l, "nativeCallInvoker"),
   nativeInvoker |-> Local(l, "jsCallInvoker"),
   retainJSCallback |-> retainJSCallback[Mgr(l)]]

\* Lines 156-161: the InitParams handed to delegate->getTurboModule.  The
\* closure's retainJSCallback is its copy (line 99) of the manager's field.
BuildParams(l) ==
  [moduleName |-> name[l],
   instance |-> JavaModule(l),
   jsInvoker |-> Local(l, "jsCallInvoker"),
   nativeInvoker |-> Local(l, "nativeCallInvoker"),
   retainJSCallback |-> retainJSCallback[Mgr(l)]]

\* Caller l enters the closure of manager m with a name.
Begin(l, m, n) ==
  /\ installed[m] # "no"
  /\ l \in contexts
  /\ pc[l] = "idle"
  /\ pc' = [pc EXCEPT ![l] = "upgrade"]
  /\ site' = [site EXCEPT ![l] = m]
  /\ name' = [name EXCEPT ![l] = n]
  /\ late' = [late EXCEPT ![l] =
                mgr[m] = "destroyed" /\ \A c \in Callers : site[c] # m]
  /\ UNCHANGED <<cfgVars, mgrVars, keepVars, freed, cache, built, tried, locked, log,
                 histVars>>

\* Lines 101-105: one lock()/lockLocal() per step, in the order of Deps.
Upgrade(l) ==
  /\ pc[l] = "upgrade"
  /\ LET d == Deps[tried[l] + 1] IN
       locked' = [locked EXCEPT ![l] = IF d \in freed[Mgr(l)] THEN @ ELSE @ \cup {d}]
  /\ tried' = [tried EXCEPT ![l] = @ + 1]
  /\ pc' = [pc EXCEPT ![l] = IF tried[l] + 1 = Len(Deps) THEN "guard" ELSE "upgrade"]
  /\ UNCHANGED <<cfgVars, mgrVars, keepVars, freed, cache, built, site, name, late,
                 log, histVars>>

\* The closure returns: its locals let go of what they hold.
Return(l, outcome, result, lg, ps) ==
  /\ pc' = [pc EXCEPT ![l] = "idle"]
  /\ site' = [site EXCEPT ![l] = ""]
  /\ name' = [name EXCEPT ![l] = ""]
  /\ late' = [late EXCEPT ![l] = FALSE]
  /\ tried' = [tried EXCEPT ![l] = 0]
  /\ locked' = [locked EXCEPT ![l] = {}]
  /\ log' = [log EXCEPT ![l] = <<>>]
  /\ freed' = Sweep(mgr, installed, ext, site', locked')
  /\ last' = [mgr |-> Mgr(l), name |-> name[l], late |-> late[l],
              deps |-> locked[l], outcome |-> outcome, result |-> result, log |-> lg,
              params |-> ps]
  /\ rets' = IF result = NullModule THEN rets
             ELSE [rets EXCEPT ![Mgr(l)][name[l]] = @ \cup {result}]

\* Lines 107-123: the guard, then the cache lookup.
GuardAndFind(l) ==
  /\ pc[l] = "guard"
  /\ LET m == Mgr(l)
         c == cacheOf[m]
         v == cache[c][name[l]]
     IN IF GuardFails(locked[l])
        THEN Return(l, "aborted", NullModule, log[l], NoParams)
        ELSE IF IsHit(v)
        THEN Return(l, "hit", v,
                    log[l] \o <<"BeginningStart", "find", "CacheHit", "BeginningEnd">>,
                    NoParams)
        ELSE /\ pc' = [pc EXCEPT ![l] = TierAfter("find")]
             /\ log' = [log EXCEPT ![l] = @ \o <<"BeginningStart", "find", "BeginningEnd">>]
             /\ UNCHANGED <<freed, site, name, late, tried, locked, last, rets>>
  /\ UNCHANGED <<cfgVars, mgrVars, keepVars, cache, built, answered>>

\* A provider came back with instance i, which is inserted and returned.
Resolved(l, tier, i, lg, ps) ==
  LET m == Mgr(l)
      n == name[l]
  IN /\ built' = [built EXCEPT ![m][n] = IF IsInstance(i) THEN @ + 1 ELSE @]
     /\ answered' = [answered EXCEPT ![m] = @ \cup {n}]
     /\ cache' = [cache EXCEPT ![cacheOf[m]] = Insert(@, n, i)]
     /\ Return(l, tier, i, lg, ps)

\* Lines 125-129: delegate->getTurboModule(name, jsCallInvoker).
Native(l) ==
  /\ pc[l] = "native"
  /\ \/ /\ pc' = [pc EXCEPT ![l] = TierAfter("native")]
        /\ log' = [log EXCEPT ![l] = @ \o <<"native">>]
        /\ UNCHANGED <<freed, cache, built, site, name, late, tried, locked, histVars>>
     \/ \E i \in Fresh(Mgr(l), name[l], "native") :
          Resolved(l, "native", i, log[l] \o <<"native", "insert">>, NoParams)
  /\ UNCHANGED <<cfgVars, mgrVars, keepVars>>

\* Lines 131-146: getLegacyCxxModule, wrapped in a TurboCxxModule.
Legacy(l) ==
  /\ pc[l] = "legacy"
  /\ \/ /\ pc' = [pc EXCEPT ![l] = TierAfter("legacy")]
        /\ log' = [log EXCEPT ![l] = @ \o <<"legacy">>]
        /\ UNCHANGED <<freed, cache, built, site, name, late, tried, locked, histVars>>
     \/ \E i \in Fresh(Mgr(l), name[l], "legacy") :
          Resolved(l, "legacy", i,
                   log[l] \o <<"legacy", "EndingStart", "insert", "EndingEnd">>,
                   NoParams)
  /\ UNCHANGED <<cfgVars, mgrVars, keepVars>>

\* Lines 148-169: getJavaModule, then delegate->getTurboModule(name, params),
\* which may itself come back empty.
Java(l) ==
  /\ pc[l] = "java"
  /\ \/ /\ cache' = [cache EXCEPT ![cacheOf[Mgr(l)]] = CacheAfterMiss(@, name[l])]
        /\ Return(l, "notfound", NullModule, log[l] \o <<"java">>, NoParams)
        /\ UNCHANGED <<built, answered>>
     \/ \E i \in Fresh(Mgr(l), name[l], "java") \cup {NullModule} :
          Resolved(l, "java", i,
                   log[l] \o <<"java", "EndingStart", "build", "insert", "EndingEnd">>,
                   BuildParams(l))
  /\ UNCHANGED <<cfgVars, mgrVars, keepVars>>

----------------------------------------------------------------------------
\* Specifications

\* Spec section 6: installJSIBindings is invoked once, at manager startup.
InstallOnce(m) ==
  /\ submitted[m] = 0
  /\ InstallJSIBindings(m)

Lookup ==
  \/ \E l \in Callers, m \in Managers, n \in Names : Begin(l, m, n)
  \/ \E l \in Callers : Upgrade(l)
  \/ \E l \in Callers : GuardAndFind(l)
  \/ \E l \in Callers : Native(l)
  \/ \E l \in Callers : Legacy(l)
  \/ \E l \in Callers : Java(l)

Startup ==
  \/ \E m \in Managers : InstallOnce(m)
  \/ \E m \in Managers : RunInstall(m)

Teardown ==
  \/ \E m \in Managers : Destroy(m)
  \/ \E m \in Managers, d \in ExternallyOwned : ExternalRelease(m, d)

Next == Startup \/ Lookup \/ Teardown

Spec == Init /\ [][Next]_vars

\* One manager whose closure is entered from two execution contexts, the
\* lookups interleaving at the steps above.
InitConc == Constructed({"m1"}, {<<FALSE, TRUE>>}, Callers)

NextConc == Startup \/ Lookup \/ \E m \in Managers : Destroy(m)

SpecConc == InitConc /\ [][NextConc]_vars

\* Two managers called from one execution context, neither torn down.
InitPair == Constructed(Managers, {<<FALSE, TRUE>>}, {"c1"})

NextPair == Startup \/ Lookup

SpecPair == InitPair /\ [][NextPair]_vars

\* One manager under each combination of the two flags, with the modules
\* retaining callbacks.
InitKeep == Constructed({"m1"}, BOOLEAN \X BOOLEAN, {"c1"})

NextKeep ==
  \/ Startup
  \/ Lookup
  \/ \E m \in Managers : Destroy(m)
  \/ \E m \in Managers : RetainCallback(m)

SpecKeep == InitKeep /\ [][NextKeep]_vars

\* One manager on which installJSIBindings may be called again and again.
NextInstall ==
  \/ \E m \in Managers : InstallJSIBindings(m)
  \/ \E m \in Managers : RunInstall(m)
  \/ Lookup

SpecInstall == Init /\ [][NextInstall]_vars

----------------------------------------------------------------------------
\* Claims

Chain == <<"native", "legacy", "java">>
IsCall(x) == x \in {"native", "legacy", "java"}
Calls(lg) == SelectSeq(lg, IsCall)
CacheOps(lg) == SelectSeq(lg, LAMBDA x : x \in {"find", "insert"})
IsPrefix(a, b) == Len(a) <= Len(b) /\ SubSeq(b, 1, Len(a)) = a
InFlight(l) == pc[l] # "idle"

\* C1 (Spec, lookups serialized): for every manager and name at most one
\* instance is ever built, and every non-empty result ever returned for the
\* name is that same instance.
C1_SingleInstantiation ==
  \A m \in Managers, n \in Names :
    /\ built[m][n] <= 1
    /\ Cardinality(rets[m][n]) <= 1
    /\ \A i \in rets[m][n] : i = <<m, n, i[3], 1>>

\* A later lookup of a resolved name came back with the instance built first.
C1_Witness ==
  /\ last.outcome = "hit"
  /\ IsInstance(last.result)
  /\ built[last.mgr][last.name] = 1
  /\ rets[last.mgr][last.name] = {last.result}

\* C2 (Spec): the providers are asked in the order native, legacy, managed;
\* the first that answers ends the lookup, and its instance is the one cached
\* and returned.
C2_PriorityOrder ==
  /\ \A l \in Callers : InFlight(l) => IsPrefix(Calls(log[l]), Chain)
  /\ \A l \in Callers : pc[l] \in PostGuard =>
       Calls(log[l]) = SubSeq(Chain, 1, Len(Calls(log[l])))
       /\ pc[l] = Chain[Len(Calls(log[l])) + 1]
  /\ last.outcome = "native" =>
       /\ Calls(last.log) = <<"native">>
       /\ last.result[3] = "native"
       /\ cache[cacheOf[last.mgr]][last.name] = last.result
  /\ last.outcome = "legacy" =>
       /\ Calls(last.log) = <<"native", "legacy">>
       /\ last.result[3] = "legacy"
       /\ cache[cacheOf[last.mgr]][last.name] = last.result
  /\ last.outcome = "java" =>
       /\ Calls(last.log) = Chain
       /\ cache[cacheOf[last.mgr]][last.name] = last.result
  /\ last.outcome = "notfound" => Calls(last.log) = Chain
  /\ last.outcome \in {"hit", "aborted"} => Calls(last.log) = <<>>

\* The native fast path answered: the legacy shim was not asked.
C2_Witness ==
  /\ last.outcome = "native"
  /\ Calls(last.log) = <<"native">>
  /\ cache[cacheOf[last.mgr]][last.name] = last.result

\* C3 (Spec): a lookup with any of the five upgrades failed returns the empty
\* result, having read and written no cache, called no provider and recorded
\* no event; no lookup gets past the guard without all five.
C3_FailSafe ==
  /\ \A l \in Callers : pc[l] \in PostGuard => locked[l] = DepSet
  /\ (last.outcome # "none" /\ last.deps # DepSet) =>
       /\ last.outcome = "aborted"
       /\ last.result = NullModule
       /\ last.log = <<>>
  /\ last.outcome = "notfound" => last.result = NullModule

\* Only the delegate was gone: the cache, the invokers and the owning manager
\* object were upgraded, and the lookup returned empty.
C3_Witness ==
  /\ last.outcome = "aborted"
  /\ last.deps = DepSet \ {"delegate"}
  /\ last.result = NullModule
  /\ "javaPart" \notin freed[last.mgr]

\* C4 (Spec): from the guard to the return every one of the five upgraded
\* dependencies is alive, whatever the destructor does meanwhile, and a lookup
\* that aborted called no provider and touched no cache.
C4_TeardownRace ==
  /\ \A l \in Callers :
       (pc[l] \in PostGuard \/ (pc[l] = "guard" /\ locked[l] = DepSet)) =>
         DepSet \cap freed[site[l]] = {}
  /\ \A l \in Callers : InFlight(l) => locked[l] \cap freed[site[l]] = {}
  /\ last.outcome = "aborted" => Calls(last.log) = <<>> /\ CacheOps(last.log) = <<>>

\* The manager was destroyed, and every outside owner let go, while a lookup
\* was at its last provider: the lookup's own references keep all five alive.
C4_Witness ==
  \E l \in Callers :
    /\ pc[l] = "java"
    /\ mgr[site[l]] = "destroyed"
    /\ ext[site[l]] = {}
    /\ freed[site[l]] = {}

\* C5 (Spec): a lookup that passes the guard for a name some earlier lookup
\* returned an instance for returns that instance from the cache, calling no
\* provider, building nothing and leaving the cache as it was.
C5_CacheHit ==
  [][\A l \in Callers :
       (/\ pc[l] = "guard"
        /\ pc'[l] # "guard"
        /\ locked[l] = DepSet
        /\ rets[site[l]][name[l]] # {})
       => /\ pc'[l] = "idle"
          /\ last'.outcome = "hit"
          /\ last'.result \in rets[site[l]][name[l]]
          /\ Calls(last'.log) = <<>>
          /\ "insert" \notin {last'.log[k] : k \in 1..Len(last'.log)}
          /\ cache' = cache
          /\ built' = built]_vars

\* A second lookup of a resolved name was served from the cache.
C5_Witness ==
  /\ last.outcome = "hit"
  /\ IsInstance(last.result)
  /\ last.deps = DepSet
  /\ last.log = <<"BeginningStart", "find", "CacheHit", "BeginningEnd">>

\* C6 (Spec): a name no provider has ever answered has no cache entry, so a
\* lookup of it is never a hit; a lookup that finds nothing has asked all
\* three providers in order and returns the empty result.
C6_IdempotentMiss ==
  /\ \A m \in Managers, n \in Names :
       n \notin answered[m] => cache[cacheOf[m]][n] = NoEntry
  /\ last.outcome = "hit" => last.name \in answered[last.mgr]
  /\ last.outcome = "notfound" =>
       /\ Calls(last.log) = Chain
       /\ last.result = NullModule
       /\ "insert" \notin {last.log[k] : k \in 1..Len(last.log)}

\* A lookup of a name found nothing, and the next lookup of the same name has
\* walked the chain again down to the last provider.
C6_Witness ==
  \E l \in Callers :
    /\ last.outcome = "notfound"
    /\ pc[l] = "java"
    /\ name[l] = last.name
    /\ site[l] = last.mgr
    /\ name[l] \notin answered[site[l]]
    /\ Calls(log[l]) = <<"native", "legacy">>

\* C7 (SpecConc, lookups interleaving): an entry, once in a cache, keeps its
\* value and is never removed.
C7_WriteOnce ==
  [][\A c \in Managers, n \in Names :
       cache[c][n] # NoEntry => cache'[c][n] = cache[c][n]]_vars

\* Two interleaved lookups of one name each built an instance; the second
\* insert found the entry of the first and changed nothing.
C7_Witness ==
  \E n \in Names :
    /\ built["m1"][n] = 2
    /\ cache[cacheOf["m1"]][n] = <<"m1", n, cache[cacheOf["m1"]][n][3], 1>>
    /\ Cardinality(rets["m1"][n]) = 2

\* C8 (SpecKeep), the claim as stated: when the manager is destroyed, under
\* ManagerScopedCollection no callback kept through its collection is kept any
\* longer; under GlobalCollection the process-wide collection keeps what it
\* has.
C8_RetentionScoping ==
  [][\A m \in Managers :
       (mgr[m] = "live" /\ mgr'[m] = "destroyed") =>
         /\ Strategy(flags[m]) = "ManagerScopedCollection" => ~kept'[m]
         /\ Strategy(flags[m]) = "GlobalCollection" => globalKept' = globalKept]_vars

\* C9 (Spec): the closure does not keep the cache alive, so a destroyed manager
\* with no lookup in flight has no cache, and a lookup that begins then stops
\* at the guard and returns the empty result, whatever was cached before.
C9_AfterTeardown ==
  /\ \A m \in Managers :
       (mgr[m] = "destroyed" /\ \A c \in Callers : site[c] # m) =>
         "turboModuleCache" \in freed[m]
  /\ \A l \in Callers :
       late[l] => pc[l] \notin PostGuard /\ "turboModuleCache" \notin locked[l]
  /\ last.late => last.outcome = "aborted" /\ last.result = NullModule

\* A name that was resolved and returned while the manager lived is looked up
\* after the destructor, with every other dependency still alive: empty.
C9_Witness ==
  /\ last.late
  /\ last.outcome = "aborted"
  /\ last.deps = ExternallyOwned
  /\ rets[last.mgr][last.name] # {}
  /\ IsInstance(cache[cacheOf[last.mgr]][last.name])

\* C10 (SpecPair, two managers): the managers have different caches; what a
\* manager's cache holds and what its closure returns was built through that
\* manager's own providers, so no instance is returned by both managers.
C10_CacheIsolation ==
  /\ \A a, b \in Managers : a # b => cacheOf[a] # cacheOf[b]
  /\ \A m \in Managers, n \in Names :
       LET v == cache[cacheOf[m]][n] IN
         /\ IsInstance(v) => v[1] = m /\ v[2] = n
         /\ v # NoEntry => n \in answered[m]
         /\ \A i \in rets[m][n] : i[1] = m /\ i[2] = n
  /\ \A a, b \in Managers, n \in Names : a # b => rets[a][n] \cap rets[b][n] = {}
  /\ last.outcome = "hit" => last.name \in answered[last.mgr]

\* A name resolved in the first manager was looked up in the second, missed
\* its cache, went through its providers and came back as another instance.
C10_Witness ==
  \E n \in Names :
    /\ rets["m1"][n] # {}
    /\ IsInstance(cache[cacheOf["m1"]][n])
    /\ last.mgr = "m2"
    /\ last.name = n
    /\ last.outcome \in {"native", "legacy", "java"}
    /\ IsInstance(last.result)
    /\ last.result \notin rets["m1"][n]
    /\ cache[cacheOf["m2"]][n] = last.result

\* C11 (SpecKeep, every combination of the two flags): the factory fixed at
\* construction is GlobalCollection when the global flag is set, otherwise
\* ManagerScopedCollection when the manager-scope flag is set, otherwise None;
\* the manager has a collection of its own exactly under
\* ManagerScopedCollection; callbacks are only ever kept where the strategy
\* says; and every module the managed-runtime tier builds was given that same
\* factory, whatever has happened since construction.
C11_StrategySelection ==
  /\ \A m \in Managers : mgr[m] # "none" =>
       /\ flags[m][1] => retainJSCallback[m] = "GlobalCollection"
       /\ (~flags[m][1] /\ flags[m][2]) =>
            retainJSCallback[m] = "ManagerScopedCollection"
       /\ (~flags[m][1] /\ ~flags[m][2]) => retainJSCallback[m] = "None"
       /\ (llc[m] # "none") <=> (retainJSCallback[m] = "ManagerScopedCollection")
       /\ kept[m] => retainJSCallback[m] = "ManagerScopedCollection"
       /\ globalKept => retainJSCallback[m] = "GlobalCollection"
  /\ last.outcome = "java" =>
       last.params.retainJSCallback = retainJSCallback[last.mgr]

\* Both flags were set: the module built by the managed-runtime tier got the
\* global factory and kept a callback through it, the manager has no
\* collection of its own, and the manager has since been destroyed.
C11_Witness ==
  /\ flags["m1"] = <<TRUE, TRUE>>
  /\ mgr["m1"] = "destroyed"
  /\ last.outcome = "java"
  /\ IsInstance(last.result)
  /\ last.params.retainJSCallback = "GlobalCollection"
  /\ globalKept
  /\ llc["m1"] = "none"

Resolution(lg) == SelectSeq(lg, LAMBDA x : x \in {"EndingStart", "EndingEnd"})
Has(lg, x) == \E k \in 1..Len(lg) : lg[k] = x

\* C12 (Spec), the claim as stated: a lookup past the guard records the begin
\* event before anything else; a hit records the cache-hit event and neither
\* resolution event; a miss resolved by the native fast path, the legacy shim
\* or the managed runtime records resolution-start, then resolution-end as the
\* last thing before it returns, and no cache-hit event.
C12_EventOrder ==
  /\ \A l \in Callers : pc[l] \in PostGuard => log[l][1] = "BeginningStart"
  /\ last.outcome \notin {"none", "aborted"} => last.log[1] = "BeginningStart"
  /\ last.outcome = "hit" =>
       /\ Has(last.log, "CacheHit")
       /\ Resolution(last.log) = <<>>
  /\ last.outcome \in {"native", "legacy", "java"} =>
       /\ Resolution(last.log) = <<"EndingStart", "EndingEnd">>
       /\ last.log[Len(last.log)] = "EndingEnd"
       /\ ~Has(last.log, "CacheHit")

Position(lg, x) == CHOOSE k \in 1..Len(lg) : lg[k] = x

\* C13 (SpecKeep): a lookup resolved by the managed-runtime tier asked the
\* native fast path and the legacy shim first, and built its module from the
\* name looked up, the instance the owning manager returned for that name, the
\* JS-side and native-side invokers upgraded in this lookup, each in its own
\* place, and the factory fixed at construction; what the delegate built was
\* then inserted under the name and returned.  No other lookup builds params.
C13_ManagedConstruction ==
  /\ last.outcome = "java" =>
       /\ Calls(last.log) = Chain
       /\ last.deps = DepSet
       /\ last.params.moduleName = last.name
       /\ last.params.instance = <<"javaModule", last.mgr, last.name>>
       /\ last.params.jsInvoker = <<last.mgr, "jsCallInvoker">>
       /\ last.params.nativeInvoker = <<last.mgr, "nativeCallInvoker">>
       /\ last.params.retainJSCallback = Strategy(flags[last.mgr])
       /\ Has(last.log, "build") /\ Has(last.log, "insert")
       /\ Position(last.log, "java") < Position(last.log, "build")
       /\ Position(last.log, "build") < Position(last.log, "insert")
       /\ cache[cacheOf[last.mgr]][last.name] = last.result
  /\ last.outcome # "java" => last.params = NoParams

\* "Bar" went past both earlier providers and was built by the managed-runtime
\* tier under the manager-scoped strategy; the instance is in the cache.
C13_Witness ==
  /\ last.outcome = "java"
  /\ last.name = "Bar"
  /\ IsInstance(last.result)
  /\ last.result[3] = "java"
  /\ last.params.moduleName = "Bar"
  /\ last.params.retainJSCallback = "ManagerScopedCollection"
  /\ cache[cacheOf[last.mgr]]["Bar"] = last.result

\* C14 (SpecInstall, installJSIBindings called any number of times), the claim
\* as stated: with the JS-side invoker present the executor is handed the
\* callback once per manager, however often installJSIBindings is called, and
\* a provider is registered only by a run of that callback; with the invoker
\* absent nothing is handed over and no provider is registered.
C14_InstalledOnce ==
  \A m \in Managers : mgr[m] # "none" =>
    /\ jsPresent[m] => submitted[m] <= 1
    /\ ran[m] <= submitted[m]
    /\ installed[m] # "no" => ran[m] >= 1
    /\ ~jsPresent[m] => submitted[m] = 0 /\ installed[m] = "no"

\* C15 (Spec), the claim as stated: every cache entry holds a non-empty module
\* instance, and a lookup that returned the empty result made no insert,
\* whatever the providers returned, the delegate building nothing from a
\* managed instance included.
C15_NoEmptyEntries ==
  /\ \A c \in Managers, n \in Names :
       cache[c][n] # NoEntry => IsInstance(cache[c][n])
  /\ (last.outcome # "none" /\ last.result = NullModule) =>
       ~Has(last.log, "insert")

\* C16 (Spec), the claim as stated: whenever the executor runs an installation
\* callback, the manager whose fields the callback reads is alive; no pending
\* callback runs against a destroyed manager.
C16_InstallWhileAlive ==
  [][\A m \in Managers : ran'[m] > ran[m] => mgr[m] = "live"]_vars

====
